---- MODULE Spec2Model ----
(***************************************************************************)
(* A model of decrypting-exdf-files/decrypt_exdf.py and                    *)
(* decrypting-exdf-files/decompile_assemblies.py.                          *)
(*                                                                         *)
(* Strings are sequences of character codes, bytes are numbers 0..255, a   *)
(* path relative to the input folder is the sequence of its components.    *)
(* pathlib is modelled as PosixPath (case-sensitive matching and           *)
(* ordering).  The output folder lies outside the input folder, and an     *)
(* I/O call that fails does so before it writes anything.                  *)
(***************************************************************************)
EXTENDS Integers, Sequences, FiniteSets, TLC

(***************************************************************************)
(* Bounds                                                                  *)
(***************************************************************************)
\* Largest number of entries (files and directories) of an input tree.
MaxEntries == 4
\* Longest byte sequence fed to decrypt_exdf in the cipher specification.
MaxLen == 2

(***************************************************************************)
(* Bitwise operators on bytes (Python's &, | and ^ on 0..255)              *)
(***************************************************************************)
RECURSIVE BitAndN(_, _, _)
BitAndN(a, b, n) ==
    IF n = 0 THEN 0
    ELSE ((a % 2) * (b % 2)) + 2 * BitAndN(a \div 2, b \div 2, n - 1)

RECURSIVE BitOrN(_, _, _)
BitOrN(a, b, n) ==
    IF n = 0 THEN 0
    ELSE (IF (a % 2) + (b % 2) > 0 THEN 1 ELSE 0)
         + 2 * BitOrN(a \div 2, b \div 2, n - 1)

RECURSIVE BitXorN(_, _, _)
BitXorN(a, b, n) ==
    IF n = 0 THEN 0
    ELSE (((a % 2) + (b % 2)) % 2) + 2 * BitXorN(a \div 2, b \div 2, n - 1)

BitAnd(a, b) == BitAndN(a, b, 8)

BitOr(a, b) == BitOrN(a, b, 8)

BitXor(a, b) == BitXorN(a, b, 8)

(***************************************************************************)
(* ByteCipher: decrypt_exdf.py reverse_bits and decrypt_exdf               *)
(***************************************************************************)
\* reverse_bits with the mask of bit 1 set to 0x20 instead of 0x40.
reverse_bits_wrong_mask(byte) ==
    LET r1 == BitOr(0, IF BitAnd(byte, 1) # 0 THEN 128 ELSE 0)
        r2 == BitOr(r1, IF BitAnd(byte, 2) # 0 THEN 32 ELSE 0)
        r3 == BitOr(r2, IF BitAnd(byte, 4) # 0 THEN 32 ELSE 0)
        r4 == BitOr(r3, IF BitAnd(byte, 8) # 0 THEN 16 ELSE 0)
        r5 == BitOr(r4, IF BitAnd(byte, 16) # 0 THEN 8 ELSE 0)
        r6 == BitOr(r5, IF BitAnd(byte, 32) # 0 THEN 4 ELSE 0)
        r7 == BitOr(r6, IF BitAnd(byte, 64) # 0 THEN 2 ELSE 0)
        r8 == BitOr(r7, IF BitAnd(byte, 128) # 0 THEN 1 ELSE 0)
    IN  r8

reverse_bits(byte) ==
    LET r1 == BitOr(0, IF BitAnd(byte, 1) # 0 THEN 128 ELSE 0)
        r2 == BitOr(r1, IF BitAnd(byte, 2) # 0 THEN 64 ELSE 0)
        r3 == BitOr(r2, IF BitAnd(byte, 4) # 0 THEN 32 ELSE 0)
        r4 == BitOr(r3, IF BitAnd(byte, 8) # 0 THEN 16 ELSE 0)
        r5 == BitOr(r4, IF BitAnd(byte, 16) # 0 THEN 8 ELSE 0)
        r6 == BitOr(r5, IF BitAnd(byte, 32) # 0 THEN 4 ELSE 0)
        r7 == BitOr(r6, IF BitAnd(byte, 64) # 0 THEN 2 ELSE 0)
        r8 == BitOr(r7, IF BitAnd(byte, 128) # 0 THEN 1 ELSE 0)
    IN  r8

\* The XOR constant of step 2.
XorKey == 170

\* decrypt_exdf with the XOR of step 2 left out.
decrypt_exdf_no_xor(data) ==
    LET reversed_data == [i \in 1..Len(data) |-> reverse_bits(data[i])]
    IN  reversed_data

decrypt_exdf(data) ==
    LET reversed_data == [i \in 1..Len(data) |-> reverse_bits(data[i])]
        decrypted == [i \in 1..Len(reversed_data) |->
                        BitXor(reversed_data[i], XorKey)]
    IN  decrypted

(***************************************************************************)
(* bytes.decode('utf-8') and str.encode('utf-8').  A text is modelled by   *)
(* its UTF-8 bytes, so decoding a valid sequence and encoding it again     *)
(* give the same bytes; decoding an invalid sequence raises.               *)
(***************************************************************************)
IsCont(b) == b >= 128 /\ b <= 191

RECURSIVE utf8_valid(_)
utf8_valid(bs) ==
    IF bs = << >> THEN TRUE
    ELSE LET b == bs[1]
             n == Len(bs)
         IN  IF b <= 127 THEN utf8_valid(Tail(bs))
             ELSE IF b >= 194 /\ b <= 223
             THEN n >= 2 /\ IsCont(bs[2]) /\ utf8_valid(SubSeq(bs, 3, n))
             ELSE IF b >= 224 /\ b <= 239
             THEN /\ n >= 3
                  /\ IsCont(bs[2])
                  /\ IsCont(bs[3])
                  /\ (b = 224 => bs[2] >= 160)
                  /\ (b = 237 => bs[2] <= 159)
                  /\ utf8_valid(SubSeq(bs, 4, n))
             ELSE IF b >= 240 /\ b <= 244
             THEN /\ n >= 4
                  /\ IsCont(bs[2])
                  /\ IsCont(bs[3])
                  /\ IsCont(bs[4])
                  /\ (b = 240 => bs[2] >= 144)
                  /\ (b = 244 => bs[2] <= 143)
                  /\ utf8_valid(SubSeq(bs, 5, n))
             ELSE FALSE

(***************************************************************************)
(* StructuredTextFormatter: pretty_print_xml.  ET.fromstring is modelled   *)
(* on the documents the model's files hold: a text that is one empty       *)
(* element tag <name/> (name of lower-case letters) parses, and            *)
(* ET.indent + ET.tostring serialise it as <name />; every other text of   *)
(* the model raises ET.ParseError.                                         *)
(***************************************************************************)
IsLetter(c) == c >= 97 /\ c <= 122

\* ET.fromstring(xml_string) succeeds
ParsesAsXml(xml_string) ==
    LET n == Len(xml_string)
    IN  /\ n >= 4
        /\ xml_string[1] = 60
        /\ xml_string[n - 1] = 47
        /\ xml_string[n] = 62
        /\ \A i \in 2..(n - 2) : IsLetter(xml_string[i])

\* ET.tostring(root, encoding='unicode') of the parsed, indented element
ElementToString(xml_string) ==
    SubSeq(xml_string, 1, Len(xml_string) - 2) \o <<32, 47, 62>>

\* pretty_print_xml whose except branch returns an empty string.
pretty_print_xml_drops_text(xml_string) ==
    IF ParsesAsXml(xml_string) THEN ElementToString(xml_string) ELSE << >>

pretty_print_xml(xml_string) ==
    IF ParsesAsXml(xml_string) THEN ElementToString(xml_string)
    ELSE xml_string

(***************************************************************************)
(* pathlib (PosixPath): suffix, with_suffix, str.lower, glob matching and  *)
(* the ordering of paths                                                   *)
(***************************************************************************)
Dot == 46

\* ".exdf" and ".xml"
ExdfSuffix == <<46, 101, 120, 100, 102>>

XmlSuffix == <<46, 120, 109, 108>>

SetMax(S) == CHOOSE x \in S : \A y \in S : y <= x

\* str.rfind('.') as a 1-based position, 0 when there is no dot
RFindDot(name) ==
    LET dots == {i \in 1..Len(name) : name[i] = Dot}
    IN  IF dots = {} THEN 0 ELSE SetMax(dots)

\* PurePath.suffix of a file name
Suffix(name) ==
    LET i == RFindDot(name)
    IN  IF 1 < i /\ i < Len(name) THEN SubSeq(name, i, Len(name)) ELSE << >>

\* str.lower() on ASCII
Lower(s) == [i \in 1..Len(s) |-> IF s[i] >= 65 /\ s[i] <= 90 THEN s[i] + 32 ELSE s[i]]

\* PurePath.name: the last component
Name(path) == path[Len(path)]

\* PurePath.parent
Parent(path) == SubSeq(path, 1, Len(path) - 1)

\* PurePath.with_suffix(suffix)
with_suffix(path, suffix) ==
    LET name == Name(path)
        old_suffix == Suffix(name)
        new_name == IF old_suffix = << >> THEN name \o suffix
                    ELSE SubSeq(name, 1, Len(name) - Len(old_suffix)) \o suffix
    IN  Parent(path) \o <<new_name>>

\* fnmatch of a name against the pattern "*" \o tail (case-sensitive)
MatchesStar(name, tail) ==
    /\ Len(name) >= Len(tail)
    /\ SubSeq(name, Len(name) - Len(tail) + 1, Len(name)) = tail

\* str.__lt__: lexicographic order of code points
RECURSIVE StrLt(_, _)
StrLt(a, b) ==
    IF b = << >> THEN FALSE
    ELSE IF a = << >> THEN TRUE
    ELSE IF a[1] # b[1] THEN a[1] < b[1]
    ELSE StrLt(Tail(a), Tail(b))

\* PurePath.__lt__: lexicographic order of the lists of components
RECURSIVE PathLt(_, _)
PathLt(p, q) ==
    IF q = << >> THEN FALSE
    ELSE IF p = << >> THEN TRUE
    ELSE IF p[1] # q[1] THEN StrLt(p[1], q[1])
    ELSE PathLt(Tail(p), Tail(q))

\* sorted() with the comparison reversed (descending order).
RECURSIVE sorted_unsorted(_)
sorted_unsorted(paths) ==
    IF paths = {} THEN << >>
    ELSE LET last == CHOOSE p \in paths : \A q \in paths : ~PathLt(p, q)
         IN  <<last>> \o sorted_unsorted(paths \ {last})

\* sorted(paths)
RECURSIVE sorted(_)
sorted(paths) ==
    IF paths = {} THEN << >>
    ELSE LET first == CHOOSE p \in paths : \A q \in paths : ~PathLt(q, p)
         IN  <<first>> \o sorted(paths \ {first})

(***************************************************************************)
(* State                                                                   *)
(***************************************************************************)
VARIABLES
    argc,             \* len(sys.argv)
    input_exists,     \* input_folder.exists()
    tree,             \* the entries under the input folder
    pc,               \* position of main
    exdf_files,       \* the part of sorted(exdf_files) still to iterate
    assemblies,       \* the part of sorted(assemblies) still to iterate
    decompiled_files, \* decompile_assemblies.py: set of decompiled paths
    walk,             \* entries the second rglob("*") has not yet produced
    success,
    failed,
    copied_count,
    output,           \* output tree: path -> [src, data] of the last write
    written,          \* every write made: set of [dest, src]
    log,              \* the files processed so far, in order
    exit_status,      \* process exit status, -1 while running
    data,             \* cipher specification: the argument of decrypt_exdf
    decrypted,        \* cipher specification: its result
    restored          \* cipher specification: result of the round trip

vars == <<argc, input_exists, tree, pc, exdf_files, assemblies,
          decompiled_files, walk, success, failed, copied_count, output,
          written, log, exit_status, data, decrypted, restored>>

cipher_vars == <<data, decrypted, restored>>

(***************************************************************************)
(* Input trees of decrypt_exdf.py                                          *)
(***************************************************************************)
File(path, bytes) == [path |-> path, is_file |-> TRUE, data |-> bytes]

Dir(path) == [path |-> path, is_file |-> FALSE, data |-> << >>]

\* a.exdf (decrypts to <r/>), a.xml, B.EXDF (decrypts to <b/>), c.txt,
\* n.exdf (decrypts to the text "no"), u.exdf (decrypts to the byte 0xAA),
\* the directory d.exdf, d.exdf/e.txt, and .exdf (decrypts to <h/>)
ExdfCandidates ==
    { File(<< <<97, 46, 101, 120, 100, 102>> >>, <<105, 27, 161, 41>>),
      File(<< <<97, 46, 120, 109, 108>> >>, <<111>>),
      File(<< <<66, 46, 69, 88, 68, 70>> >>, <<105, 19, 161, 41>>),
      File(<< <<99, 46, 116, 120, 116>> >>, <<99>>),
      File(<< <<110, 46, 101, 120, 100, 102>> >>, <<35, 163>>),
      File(<< <<117, 46, 101, 120, 100, 102>> >>, <<0>>),
      Dir(<< <<100, 46, 101, 120, 100, 102>> >>),
      File(<< <<100, 46, 101, 120, 100, 102>>, <<101, 46, 116, 120, 116>> >>,
           <<101>>),
      File(<< <<46, 101, 120, 100, 102>> >>, <<105, 67, 161, 41>>) }

\* A tree holds the parent directory of each of its entries.
ParentClosed(t) ==
    \A e \in t : Len(e.path) > 1 => Dir(Parent(e.path)) \in t

Trees(candidates) ==
    {t \in SUBSET candidates : Cardinality(t) <= MaxEntries /\ ParentClosed(t)}

RegularFiles == {e \in tree : e.is_file}

EntryAt(path) == CHOOSE e \in tree : e.path = path

(***************************************************************************)
(* decrypt_exdf.py: decrypt_exdf_file                                      *)
(***************************************************************************)
\* The outcomes of the I/O of one call: the environment's choice.
FileIO == {"ok", "read_error", "write_error"}

Failure(err) == [ok |-> FALSE, err |-> err, text |-> << >>]

\* decrypt_exdf_file that reports a failed call as a success, writing an
\* empty file.
decrypt_exdf_file_swallows(entry, io) ==
    IF ~entry.is_file \/ io = "read_error"
    THEN [ok |-> TRUE, err |-> "read", text |-> << >>]
    ELSE LET decrypted_data == decrypt_exdf(entry.data)
         IN  IF ~utf8_valid(decrypted_data) \/ io = "write_error"
             THEN [ok |-> TRUE, err |-> "decode", text |-> << >>]
             ELSE [ok |-> TRUE, err |-> "none",
                   text |-> pretty_print_xml(decrypted_data)]

\* The result of decrypt_exdf_file(input_path, output_path): ok is the value
\* returned, text the text written to output_path when ok.
decrypt_exdf_file(entry, io) ==
    IF ~entry.is_file \/ io = "read_error" THEN Failure("read")
    ELSE LET encrypted_data == entry.data
             decrypted_data == decrypt_exdf(encrypted_data)
         IN  IF ~utf8_valid(decrypted_data) THEN Failure("decode")
             ELSE LET xml_string == decrypted_data
                      formatted_xml == pretty_print_xml(xml_string)
                  IN  IF io = "write_error" THEN Failure("write")
                      ELSE [ok |-> TRUE, err |-> "none", text |-> formatted_xml]

(***************************************************************************)
(* decrypt_exdf.py: main                                                   *)
(***************************************************************************)
\* input_folder.rglob(pattern "*" \o tail): entries of any depth, files and
\* directories alike, whose name matches
rglob(tail) == {e \in tree : MatchesStar(Name(e.path), tail)}

Paths(entries) == {e.path : e \in entries}

Write(dest, src, bytes) ==
    /\ output' = [p \in DOMAIN output \cup {dest} |->
                    IF p = dest THEN [src |-> src, data |-> bytes] ELSE output[p]]
    /\ written' = written \cup {[dest |-> dest, src |-> src]}

Logged(path, op, err) == Append(log, [path |-> path, op |-> op, err |-> err])

Init ==
    /\ argc \in {2, 3}
    /\ input_exists \in BOOLEAN
    /\ tree \in Trees(ExdfCandidates)
    /\ (argc # 3 \/ ~input_exists) => tree = {}
    /\ pc = "start"
    /\ exdf_files = << >>
    /\ assemblies = << >>
    /\ decompiled_files = {}
    /\ walk = {}
    /\ success = 0
    /\ failed = 0
    /\ copied_count = 0
    /\ output = << >>
    /\ written = {}
    /\ log = << >>
    /\ exit_status = -1
    /\ data = << >>
    /\ decrypted = << >>
    /\ restored = << >>

\* lines 93-96: wrong number of arguments
MainUsage ==
    /\ pc = "start"
    /\ argc # 3
    /\ pc' = "exited"
    /\ exit_status' = 1
    /\ UNCHANGED <<argc, input_exists, tree, exdf_files, assemblies,
                   decompiled_files, walk, success, failed, copied_count,
                   output, written, log, cipher_vars>>

\* lines 101-103: the input folder does not exist
MainInputMissing ==
    /\ pc = "start"
    /\ argc = 3
    /\ ~input_exists
    /\ pc' = "exited"
    /\ exit_status' = 1
    /\ UNCHANGED <<argc, input_exists, tree, exdf_files, assemblies,
                   decompiled_files, walk, success, failed, copied_count,
                   output, written, log, cipher_vars>>

\* lines 105-117: find the .exdf files, create the output folder (mkdir may
\* raise, which ends the process with a traceback), zero the counters
MainBegin ==
    /\ pc = "start"
    /\ argc = 3
    /\ input_exists
    /\ \E mkdir_ok \in BOOLEAN :
         IF mkdir_ok
         THEN /\ pc' = "decrypt"
              /\ exdf_files' = sorted(Paths(rglob(ExdfSuffix)))
              /\ success' = 0
              /\ failed' = 0
              /\ UNCHANGED exit_status
         ELSE /\ pc' = "crashed"
              /\ exit_status' = 1
              /\ UNCHANGED <<exdf_files, success, failed>>
    /\ UNCHANGED <<argc, input_exists, tree, assemblies, decompiled_files,
                   walk, copied_count, output, written, log, cipher_vars>>

\* lines 119-131: one iteration of the loop over sorted(exdf_files)
DecryptLoop ==
    /\ pc = "decrypt"
    /\ exdf_files # << >>
    /\ \E io \in FileIO :
         LET exdf_file == Head(exdf_files)
             rel_path == exdf_file
             output_rel_path == with_suffix(rel_path, XmlSuffix)
             result == decrypt_exdf_file(EntryAt(exdf_file), io)
         IN  /\ exdf_files' = Tail(exdf_files)
             /\ log' = Logged(rel_path, "decrypt", result.err)
             /\ IF result.ok
                THEN /\ Write(output_rel_path, rel_path, result.text)
                     /\ success' = success + 1
                     /\ UNCHANGED failed
                ELSE /\ failed' = failed + 1
                     /\ UNCHANGED <<success, output, written>>
             /\ UNCHANGED <<pc, exit_status>>
    /\ UNCHANGED <<argc, input_exists, tree, assemblies, decompiled_files,
                   walk, copied_count, cipher_vars>>

\* lines 133-138: the loop is over; start the walk of the copy phase
DecryptLoopEnd ==
    /\ pc = "decrypt"
    /\ exdf_files = << >>
    /\ pc' = "copy"
    /\ copied_count' = 0
    /\ walk' = tree
    /\ UNCHANGED <<argc, input_exists, tree, exdf_files, assemblies,
                   decompiled_files, success, failed, output, written, log,
                   exit_status, cipher_vars>>

\* lines 138-153: one iteration of the loop over input_folder.rglob("*"),
\* which yields the entries in the order the file system lists them; an
\* exception of mkdir or shutil.copy2 is not caught and ends the process
CopyLoop ==
    /\ pc = "copy"
    /\ \E file_path \in walk, copy_ok \in BOOLEAN :
         /\ walk' = walk \ {file_path}
         /\ IF ~file_path.is_file
               \/ Lower(Suffix(Name(file_path.path))) = ExdfSuffix
            THEN UNCHANGED <<pc, copied_count, output, written, log,
                             exit_status>>
            ELSE LET rel_path == file_path.path
                     dest_path == rel_path
                 IN  IF copy_ok
                     THEN /\ Write(dest_path, rel_path, file_path.data)
                          /\ copied_count' = copied_count + 1
                          /\ log' = Logged(rel_path, "copy", "none")
                          /\ UNCHANGED <<pc, exit_status>>
                     ELSE /\ pc' = "crashed"
                          /\ exit_status' = 1
                          /\ log' = Logged(rel_path, "copy", "copy")
                          /\ UNCHANGED <<copied_count, output, written>>
    /\ UNCHANGED <<argc, input_exists, tree, exdf_files, assemblies,
                   decompiled_files, success, failed, cipher_vars>>

\* lines 155-157: the summary line; main returns and the process ends with
\* status 0
CopyLoopEnd ==
    /\ pc = "copy"
    /\ walk = {}
    /\ pc' = "done"
    /\ exit_status' = 0
    /\ UNCHANGED <<argc, input_exists, tree, exdf_files, assemblies,
                   decompiled_files, walk, success, failed, copied_count,
                   output, written, log, cipher_vars>>

Next ==
    \/ MainUsage
    \/ MainInputMissing
    \/ MainBegin
    \/ DecryptLoop
    \/ DecryptLoopEnd
    \/ CopyLoop
    \/ CopyLoopEnd

Spec == Init /\ [][Next]_vars

(***************************************************************************)
(* Cipher specification: decrypt_exdf applied to byte sequences            *)
(***************************************************************************)
\* XOR with 0xAA followed by bit reversal, per byte (the inverse named by
\* the round-trip property)
decrypt_inverse(bytes) ==
    [i \in 1..Len(bytes) |-> reverse_bits(BitXor(bytes[i], XorKey))]

\* Every byte value at every position, in sequences of 0..MaxLen bytes.
CipherInputs ==
    {[i \in 1..n |-> (x + 85 * (i - 1)) % 256] : x \in 0..255, n \in 0..MaxLen}

Idle ==
    /\ argc = 3
    /\ input_exists = TRUE
    /\ tree = {}
    /\ exdf_files = << >>
    /\ assemblies = << >>
    /\ decompiled_files = {}
    /\ walk = {}
    /\ success = 0
    /\ failed = 0
    /\ copied_count = 0
    /\ output = << >>
    /\ written = {}
    /\ log = << >>
    /\ exit_status = -1

main_vars == <<argc, input_exists, tree, exdf_files, assemblies,
               decompiled_files, walk, success, failed, copied_count, output,
               written, log, exit_status>>

InitCipher ==
    /\ Idle
    /\ pc = "cipher_input"
    /\ data \in CipherInputs
    /\ decrypted = << >>
    /\ restored = << >>

\* decrypted = decrypt_exdf(data)
CipherDecrypt ==
    /\ pc = "cipher_input"
    /\ decrypted' = decrypt_exdf(data)
    /\ pc' = "cipher_decrypted"
    /\ UNCHANGED <<main_vars, data, restored>>

\* restored = decrypt_inverse(decrypt_exdf(data))
CipherInvert ==
    /\ pc = "cipher_decrypted"
    /\ restored' = decrypt_inverse(decrypted)
    /\ pc' = "cipher_restored"
    /\ UNCHANGED <<main_vars, data, decrypted>>

\* decrypted = decrypt_inverse(data)
CipherEncrypt ==
    /\ pc = "cipher_input"
    /\ decrypted' = decrypt_inverse(data)
    /\ pc' = "cipher_encrypted"
    /\ UNCHANGED <<main_vars, data, restored>>

\* restored = decrypt_exdf(decrypt_inverse(data))
CipherDecryptBack ==
    /\ pc = "cipher_encrypted"
    /\ restored' = decrypt_exdf(decrypted)
    /\ pc' = "cipher_restored"
    /\ UNCHANGED <<main_vars, data, decrypted>>

NextCipher ==
    \/ CipherDecrypt
    \/ CipherInvert
    \/ CipherEncrypt
    \/ CipherDecryptBack

SpecCipher == InitCipher /\ [][NextCipher]_vars

(***************************************************************************)
(* decompile_assemblies.py                                                 *)
(***************************************************************************)
\* EXTENSIONS = {".dll", ".exe"}
EXTENSIONS == {<<46, 100, 108, 108>>, <<46, 101, 120, 101>>}

\* x.dll, y.EXE, z.txt, the directory lib, lib/x.dll and the directory w.dll
AssemblyCandidates ==
    { File(<< <<120, 46, 100, 108, 108>> >>, <<1>>),
      File(<< <<121, 46, 69, 88, 69>> >>, <<2>>),
      File(<< <<122, 46, 116, 120, 116>> >>, <<3>>),
      Dir(<< <<108, 105, 98>> >>),
      File(<< <<108, 105, 98>>, <<120, 46, 100, 108, 108>> >>, <<4>>),
      Dir(<< <<119, 46, 100, 108, 108>> >>) }

\* PurePath.stem of a file name
Stem(name) ==
    LET i == RFindDot(name)
    IN  IF 1 < i /\ i < Len(name) THEN SubSeq(name, 1, i - 1) ELSE name

\* What one call of decompile_assembly meets: mkdir of the output
\* subdirectory raising, ilspycmd returning 0 or not, running into the
\* timeout, or not being found.
ToolRuns == {"ok", "nonzero", "timeout", "not_found", "mkdir_error"}

\* decompile_assembly that reports a missing tool as a failed assembly.
decompile_assembly_not_found_returns_false(run) ==
    CASE run = "mkdir_error" -> [returns |-> "raise", err |-> "mkdir"]
      [] run = "ok" -> [returns |-> "True", err |-> "none"]
      [] run = "nonzero" -> [returns |-> "False", err |-> "nonzero"]
      [] run = "timeout" -> [returns |-> "False", err |-> "timeout"]
      [] run = "not_found" -> [returns |-> "False", err |-> "not_found"]

\* How decompile_assembly(assembly_path, output_dir) ends: it returns True or
\* False, raises (mkdir, line 28, is outside the try) or calls sys.exit(1)
decompile_assembly(run) ==
    CASE run = "mkdir_error" -> [returns |-> "raise", err |-> "mkdir"]
      [] run = "ok" -> [returns |-> "True", err |-> "none"]
      [] run = "nonzero" -> [returns |-> "False", err |-> "nonzero"]
      [] run = "timeout" -> [returns |-> "False", err |-> "timeout"]
      [] run = "not_found" -> [returns |-> "exit", err |-> "not_found"]

\* [f for f in input_folder.rglob("*") if f.suffix.lower() in EXTENSIONS]
FoundAssemblies == {e \in tree : Lower(Suffix(Name(e.path))) \in EXTENSIONS}

InitDecompile ==
    /\ argc \in {2, 3}
    /\ input_exists \in BOOLEAN
    /\ tree \in Trees(AssemblyCandidates)
    /\ (argc # 3 \/ ~input_exists) => tree = {}
    /\ pc = "start"
    /\ exdf_files = << >>
    /\ assemblies = << >>
    /\ decompiled_files = {}
    /\ walk = {}
    /\ success = 0
    /\ failed = 0
    /\ copied_count = 0
    /\ output = << >>
    /\ written = {}
    /\ log = << >>
    /\ exit_status = -1
    /\ data = << >>
    /\ decrypted = << >>
    /\ restored = << >>

\* lines 49-60: argparse rejects a wrong number of arguments with status 2
DecompileUsage ==
    /\ pc = "start"
    /\ argc # 3
    /\ pc' = "exited"
    /\ exit_status' = 2
    /\ UNCHANGED <<argc, input_exists, tree, exdf_files, assemblies,
                   decompiled_files, walk, success, failed, copied_count,
                   output, written, log, cipher_vars>>

\* lines 64-66: the input folder does not exist
DecompileInputMissing ==
    /\ pc = "start"
    /\ argc = 3
    /\ ~input_exists
    /\ pc' = "exited"
    /\ exit_status' = 1
    /\ UNCHANGED <<argc, input_exists, tree, exdf_files, assemblies,
                   decompiled_files, walk, success, failed, copied_count,
                   output, written, log, cipher_vars>>

\* lines 68-84: find the assemblies, create the output folder (mkdir may
\* raise), start with no decompiled file and zero counters
DecompileBegin ==
    /\ pc = "start"
    /\ argc = 3
    /\ input_exists
    /\ \E mkdir_ok \in BOOLEAN :
         IF mkdir_ok
         THEN /\ pc' = "decompile"
              /\ assemblies' = sorted(Paths(FoundAssemblies))
              /\ decompiled_files' = {}
              /\ success' = 0
              /\ failed' = 0
              /\ UNCHANGED exit_status
         ELSE /\ pc' = "crashed"
              /\ exit_status' = 1
              /\ UNCHANGED <<assemblies, decompiled_files, success, failed>>
    /\ UNCHANGED <<argc, input_exists, tree, exdf_files, walk, copied_count,
                   output, written, log, cipher_vars>>

\* lines 86-96: one iteration of the loop over sorted(assemblies); a
\* successful run leaves the decompiled sources in the directory
\* rel_path.parent / assembly_path.stem of the output folder
DecompileLoop ==
    /\ pc = "decompile"
    /\ assemblies # << >>
    /\ \E run \in ToolRuns :
         LET assembly == Head(assemblies)
             rel_path == assembly
             output_subdir == Parent(rel_path) \o <<Stem(Name(assembly))>>
             result == decompile_assembly(run)
         IN  /\ log' = Logged(rel_path, "decompile", result.err)
             /\ CASE result.returns = "True" ->
                       /\ decompiled_files' = decompiled_files \cup {assembly}
                       /\ success' = success + 1
                       /\ Write(output_subdir, rel_path, << >>)
                       /\ assemblies' = Tail(assemblies)
                       /\ UNCHANGED <<failed, pc, exit_status>>
                  [] result.returns = "False" ->
                       /\ failed' = failed + 1
                       /\ assemblies' = Tail(assemblies)
                       /\ UNCHANGED <<decompiled_files, success, output,
                                      written, pc, exit_status>>
                  [] result.returns = "exit" ->
                       /\ pc' = "exited"
                       /\ exit_status' = 1
                       /\ UNCHANGED <<decompiled_files, success, failed,
                                      output, written, assemblies>>
                  [] result.returns = "raise" ->
                       /\ pc' = "crashed"
                       /\ exit_status' = 1
                       /\ UNCHANGED <<decompiled_files, success, failed,
                                      output, written, assemblies>>
    /\ UNCHANGED <<argc, input_exists, tree, exdf_files, walk, copied_count,
                   cipher_vars>>

\* lines 98-103: the loop is over; start the walk of the copy phase
DecompileLoopEnd ==
    /\ pc = "decompile"
    /\ assemblies = << >>
    /\ pc' = "copy_rest"
    /\ copied_count' = 0
    /\ walk' = tree
    /\ UNCHANGED <<argc, input_exists, tree, exdf_files, assemblies,
                   decompiled_files, success, failed, output, written, log,
                   exit_status, cipher_vars>>

\* lines 103-118: one iteration of the loop over input_folder.rglob("*"); an
\* exception of mkdir or shutil.copy2 is not caught and ends the process
DecompileCopyLoop ==
    /\ pc = "copy_rest"
    /\ \E file_path \in walk, copy_ok \in BOOLEAN :
         /\ walk' = walk \ {file_path}
         /\ IF ~file_path.is_file \/ file_path.path \in decompiled_files
            THEN UNCHANGED <<pc, copied_count, output, written, log,
                             exit_status>>
            ELSE LET rel_path == file_path.path
                     dest_path == rel_path
                 IN  IF copy_ok
                     THEN /\ Write(dest_path, rel_path, file_path.data)
                          /\ copied_count' = copied_count + 1
                          /\ log' = Logged(rel_path, "copy", "none")
                          /\ UNCHANGED <<pc, exit_status>>
                     ELSE /\ pc' = "crashed"
                          /\ exit_status' = 1
                          /\ log' = Logged(rel_path, "copy", "copy")
                          /\ UNCHANGED <<copied_count, output, written>>
    /\ UNCHANGED <<argc, input_exists, tree, exdf_files, assemblies,
                   decompiled_files, success, failed, cipher_vars>>

\* lines 120-124: the summary line and sys.exit(0 if failed == 0 else 1)
DecompileCopyLoopEnd ==
    /\ pc = "copy_rest"
    /\ walk = {}
    /\ pc' = "done"
    /\ exit_status' = (IF failed = 0 THEN 0 ELSE 1)
    /\ UNCHANGED <<argc, input_exists, tree, exdf_files, assemblies,
                   decompiled_files, walk, success, failed, copied_count,
                   output, written, log, cipher_vars>>

NextDecompile ==
    \/ DecompileUsage
    \/ DecompileInputMissing
    \/ DecompileBegin
    \/ DecompileLoop
    \/ DecompileLoopEnd
    \/ DecompileCopyLoop
    \/ DecompileCopyLoopEnd

SpecDecompile == InitDecompile /\ [][NextDecompile]_vars

(***************************************************************************)
(* Properties                                                              *)
(***************************************************************************)
Last(seq) == seq[Len(seq)]

\* A regular file with the encrypted extension, matched case-insensitively.
IsEncrypted(e) == e.is_file /\ Lower(Suffix(Name(e.path))) = ExdfSuffix

\* The step is one iteration of the loop over sorted(exdf_files).
DecryptStep == pc = "decrypt" /\ exdf_files # << >> /\ log' # log

\* C1 - Traversal completeness: a run of decrypt_exdf.py main without a
\* transform or copy failure leaves exactly one output file per regular
\* input file: an encrypted file at its relative path with the extension
\* rewritten to .xml, any other file at its relative path with the content of
\* the source, and no output path is written from two different input files.
C1_TraversalCompleteness ==
    (pc = "done" /\ failed = 0) =>
        /\ Cardinality(DOMAIN output) = Cardinality(RegularFiles)
        /\ \A e \in RegularFiles :
             IF IsEncrypted(e)
             THEN /\ with_suffix(e.path, XmlSuffix) \in DOMAIN output
                  /\ output[with_suffix(e.path, XmlSuffix)].src = e.path
             ELSE /\ e.path \in DOMAIN output
                  /\ output[e.path] = [src |-> e.path, data |-> e.data]
        /\ \A w1, w2 \in written : w1.dest = w2.dest => w1.src = w2.src

\* C2 - RunReport count invariant: when the summary line is reached,
\* success + failed + copied_count is the number of regular files under the
\* input root.
C2_CountInvariant ==
    pc = "done" => success + failed + copied_count = Cardinality(RegularFiles)

\* C3 - Exit status reflects allSucceeded: a run of decrypt_exdf.py main that
\* reaches the summary ends with status 0 if and only if failed = 0, and a
\* run in which a transform failed never ends with status 0.
C3_ExitStatusReflectsFailed ==
    /\ pc = "done" => (exit_status = 0 <=> failed = 0)
    /\ (pc \in {"done", "crashed"} /\ failed > 0) => exit_status # 0

\* C4 - Failure isolation: an iteration whose decrypt_exdf_file call fails
\* (unreadable input, invalid UTF-8, unwritable output) adds one to failed and
\* nothing else: no output is written, success is unchanged and the loop goes
\* on with the next file; bytes that are not UTF-8 always fail; every
\* successful call has written its own output; and once the loop is over
\* every .exdf entry found has been processed exactly once, and at the
\* summary every other regular file has been copied.
C4_FailureIsolation ==
    /\ [][(DecryptStep /\ Last(log').err # "none") =>
            /\ failed' = failed + 1
            /\ success' = success
            /\ output' = output
            /\ written' = written
            /\ pc' = "decrypt"
            /\ exit_status' = exit_status
            /\ exdf_files' = Tail(exdf_files)]_vars
    /\ [][(DecryptStep /\ \/ ~EntryAt(Head(exdf_files)).is_file
                          \/ ~utf8_valid(decrypt_exdf(
                                 EntryAt(Head(exdf_files)).data))) =>
            Last(log').err # "none"]_vars
    /\ [](\A i \in DOMAIN log :
            (log[i].op = "decrypt" /\ log[i].err = "none") =>
                [dest |-> with_suffix(log[i].path, XmlSuffix),
                 src |-> log[i].path] \in written)
    /\ [](pc \in {"copy", "done"} =>
            \A e \in rglob(ExdfSuffix) :
                Cardinality({i \in DOMAIN log :
                    log[i].op = "decrypt" /\ log[i].path = e.path}) = 1)
    /\ [](pc = "done" =>
            \A e \in RegularFiles :
                Lower(Suffix(Name(e.path))) # ExdfSuffix =>
                    /\ e.path \in DOMAIN output
                    /\ output[e.path] = [src |-> e.path, data |-> e.data])

\* A failed transform was followed by a successful one and by a copy, and
\* the run reached the summary.
C4_Witness ==
    /\ pc = "done"
    /\ copied_count >= 1
    /\ \E i, j \in DOMAIN log :
         /\ i < j
         /\ log[i].op = "decrypt" /\ log[i].err # "none"
         /\ log[j].op = "decrypt" /\ log[j].err = "none"

\* C5 - Per-file error propagation: no per-file error aborts the run of
\* decrypt_exdf.py main; once a file has been processed the run never ends
\* in an uncaught exception.
C5_NoPerFileErrorAborts ==
    log # << >> => pc # "crashed"

\* Bit i of a byte.
Bit(x, i) == (x \div (2 ^ i)) % 2

\* C6 - Cipher definition: decrypt_exdf preserves length and maps each byte x
\* to the byte whose bit i is bit 7-i of x XOR bit i of 0xAA; 0x00 maps to
\* 0xAA, 0xFF to 0x55 and 0x01 to 0x2A.
C6_CipherDefinition ==
    pc = "cipher_decrypted" =>
        /\ Len(decrypted) = Len(data)
        /\ \A k \in 1..Len(data) :
             /\ decrypted[k] \in 0..255
             /\ \A i \in 0..7 :
                  Bit(decrypted[k], i) = (Bit(data[k], 7 - i) + Bit(170, i)) % 2
        /\ (data = <<0>> => decrypted = <<170>>)
        /\ (data = <<255>> => decrypted = <<85>>)
        /\ (data = <<1>> => decrypted = <<42>>)

\* decrypt_exdf has been applied to a sequence of two bytes starting with 0x01.
C6_Witness ==
    /\ pc = "cipher_decrypted"
    /\ Len(data) = 2
    /\ data[1] = 1
    /\ decrypted[1] = 42

\* C7 - Cipher round-trip: decrypt_exdf(decrypt_inverse(b)) = b and
\* decrypt_inverse(decrypt_exdf(b)) = b.
C7_RoundTrip ==
    pc = "cipher_restored" => restored = data

\* Both round trips of the byte 0x3C have been made.
C7_Witness ==
    /\ pc = "cipher_restored"
    /\ data = <<60>>
    /\ decrypted \in {<<105>>, <<150>>}
    /\ restored = <<60>>

\* C8 (as stated) - Deterministic processing order: of any two files
\* processed in the run, transformed or copied, the one with the smaller
\* relative path is processed first.
C8_AscendingOrder ==
    \A i, j \in DOMAIN log :
        (/\ log[i].err = "none"
         /\ log[j].err = "none"
         /\ PathLt(log[i].path, log[j].path)) => i < j

\* C8 (amended) - the .exdf files are transformed in ascending order of
\* their path, and every transform precedes every copy.
C8_TransformsAscendingBeforeCopies ==
    \A i, j \in DOMAIN log :
        i < j =>
            /\ log[j].op = "decrypt" => log[i].op = "decrypt"
            /\ (log[i].op = "decrypt" /\ log[j].op = "decrypt") =>
                   PathLt(log[i].path, log[j].path)

\* Two files have been transformed and a third copied.
C8_Witness ==
    /\ Len(log) = 3
    /\ log[1].op = "decrypt"
    /\ log[2].op = "decrypt"
    /\ log[3].op = "copy"

\* C9 - Formatter graceful degradation: when the decrypted bytes decode as
\* UTF-8 but do not parse as markup and the file can be read and written,
\* decrypt_exdf_file writes the decoded text unchanged and the file counts as
\* a success, not as a failure (n.exdf yields the text "no").
C9_GracefulDegradation ==
    [][(/\ DecryptStep
        /\ EntryAt(Head(exdf_files)).is_file
        /\ utf8_valid(decrypt_exdf(EntryAt(Head(exdf_files)).data))
        /\ ~ParsesAsXml(decrypt_exdf(EntryAt(Head(exdf_files)).data))
        /\ Last(log').err \notin {"read", "write"}) =>
            LET e == EntryAt(Head(exdf_files))
                dest == with_suffix(e.path, XmlSuffix)
            IN  /\ Last(log').err = "none"
                /\ dest \in DOMAIN output'
                /\ output'[dest] = [src |-> e.path, data |-> decrypt_exdf(e.data)]
                /\ (e.data = <<35, 163>> => output'[dest].data = <<110, 111>>)
                /\ success' = success + 1
                /\ failed' = failed]_vars

\* n.exdf was transformed: n.xml holds the text "no" and counts as a success.
C9_Witness ==
    /\ success >= 1
    /\ failed = 0
    /\ << <<110, 46, 120, 109, 108>> >> \in DOMAIN output
    /\ output[<< <<110, 46, 120, 109, 108>> >>] =
           [src |-> << <<110, 46, 101, 120, 100, 102>> >>, data |-> <<110, 111>>]

\* The step is one iteration of the loop over sorted(assemblies).
DecompileStep == pc = "decompile" /\ assemblies # << >> /\ log' # log

\* C10 - Decompilation failure policy: when the tool is not found the
\* process ends at once with status 1 (no later assembly is attempted, no
\* file is copied, no summary); a non-zero return code or a timeout adds one
\* to failed, marks nothing as decompiled and the loop goes on, so that the
\* copy phase starts only after every assembly was attempted.
C10_DecompileFailurePolicy ==
    /\ [][(DecompileStep /\ Last(log').err = "not_found") =>
            /\ pc' = "exited"
            /\ exit_status' = 1
            /\ <<success, failed, copied_count, output, written>>' =
                   <<success, failed, copied_count, output, written>>]_vars
    /\ [][pc = "exited" => UNCHANGED vars]_vars
    /\ []((log # << >> /\ Last(log).err = "not_found") =>
            /\ pc = "exited"
            /\ copied_count = 0
            /\ \A i \in DOMAIN log : log[i].op # "copy")
    /\ [][(DecompileStep /\ Last(log').err \in {"nonzero", "timeout"}) =>
            /\ failed' = failed + 1
            /\ success' = success
            /\ decompiled_files' = decompiled_files
            /\ output' = output
            /\ pc' = "decompile"
            /\ exit_status' = exit_status
            /\ assemblies' = Tail(assemblies)]_vars
    /\ [](pc \in {"copy_rest", "done"} =>
            \A e \in FoundAssemblies :
                \E i \in DOMAIN log :
                    /\ log[i].op = "decompile"
                    /\ log[i].path = e.path
                    /\ log[i].err \in {"none", "nonzero", "timeout"})

\* An assembly failed to decompile, the run went on to the next one, and
\* there the tool was not found.
C10_Witness ==
    /\ pc = "exited"
    /\ failed = 1
    /\ Len(log) = 2
    /\ log[1].err \in {"nonzero", "timeout"}
    /\ log[2].err = "not_found"

====
